---- MODULE Spec2Model ----
(***************************************************************************)
(* Model of the real-time event synchronisation of the Network Dashboard   *)
(* backend: the ConnectionManager hub (backend/sync.py), the /ws/sync      *)
(* stream handler (backend/main.py) and the route handlers that publish    *)
(* on the module-level managers of the routers (backend/routers/*.py).     *)
(*                                                                         *)
(* Everything runs on one asyncio event loop.  A coroutine runs without    *)
(* interruption between two awaits, so every action below is the code      *)
(* between two consecutive awaits.  A send_json puts its message on the    *)
(* channel when it is called (or raises), and the calling coroutine may    *)
(* stay suspended in the await for any time afterwards, so the steps of    *)
(* different coroutines interleave freely at the sends.                    *)
(*                                                                         *)
(* The second part is the network scan (backend/network.py): the main      *)
(* thread of scan_network submits one probe per host address to a thread   *)
(* pool and collects the results; the third is the reconciliation of a     *)
(* scan with the device table by the scan route (routers/devices.py) next  *)
(* to the operator routes that set role and status.                        *)
(***************************************************************************)
EXTENDS Integers, Sequences, FiniteSets, TLC

\* ------------------------------------------------------------------ bounds
NumWS == 2            \* websocket clients that may ever connect
MaxPub == 2           \* broadcast calls in the concurrent specification
MaxHistPub == 150     \* broadcast calls in the history specification
MaxReplayPub == 12    \* broadcast calls in the replay specification

\* ------------------------------------------------------- program constants
max_history == 100
replay_len == 10

WSNames == <<"ws1", "ws2", "ws3", "ws4">>
WS == {WSNames[i] : i \in 1..NumWS}
\* the route modules that construct a ConnectionManager of their own
Producers == {"devices", "firewall", "users"}
Tasks == WS \cup Producers
Hubs == {"main"} \cup Producers

\* the manager a coroutine publishes on: main.manager for the stream handler,
\* the router's own module-level manager for a route handler
HubOf(t) == IF t \in WS THEN "main" ELSE t

VARIABLES
    active_connections,  \* hub -> list of websockets (ConnectionManager.active_connections)
    message_history,     \* hub -> list of messages   (ConnectionManager.message_history)
    clock,               \* number of broadcast calls so far; also the utcnow() reading
    pc,                  \* task -> position of the coroutine
    message,             \* task -> the message argument of its running broadcast
    it,                  \* task -> index of the list iterator of its running broadcast
    disconnected,        \* task -> the local list `disconnected` of its running broadcast
    broken,              \* websockets whose channel was found broken: every send on it raises
    received,            \* websocket -> the messages put on its channel, in order
    published,           \* hub -> every message ever appended to its history, in order
    pubs,                \* broadcast call number -> observation record of that call
    cur,                 \* task -> number of its running (or last) broadcast call
    joinN,               \* websocket -> messages published on main when it connected (-1: never)
    \* ---- scan_network (network.py)
    scan_range,          \* the network_range argument
    scan_pc,             \* position of the main thread of scan_network
    submitted,           \* number of hosts handed to executor.submit so far
    work_queue,          \* the executor's queue of submitted, not yet started probes
    threads,             \* worker threads the executor has created
    probe,               \* host -> state of its scan_single_host call
    future,              \* host -> result of its finished call
    outcome,             \* host -> what the external calls of its probe did
    devices,             \* the local list `devices` of scan_network
    dispatches,          \* host -> number of times a worker started its probe
    \* ---- scan_devices and the operator routes (routers/devices.py, routers/firewall.py)
    db_devices,          \* committed rows of the devices table, in id order
    db_alerts,           \* committed rows of the alerts table
    snapshot,            \* what scan_network returns to scan_devices in this run
    reqs,                \* number of requests handled so far
    scan_log,            \* one observation record per scan request
    op_set               \* device id -> role and status as last set outside a scan

hubVars == <<active_connections, message_history, clock, pc, message, it,
             disconnected, broken, received, published, pubs, cur, joinN>>

scanVars == <<scan_range, scan_pc, submitted, work_queue, threads, probe,
              future, outcome, devices, dispatches>>

dbVars == <<db_devices, db_alerts, snapshot, reqs, scan_log, op_set>>

vars == <<hubVars, scanVars, dbVars>>

\* ------------------------------------------------------------ list helpers
Range(s) == {s[i] : i \in 1..Len(s)}

Min(a, b) == IF a < b THEN a ELSE b

Max(a, b) == IF a > b THEN a ELSE b

\* s[-n:] of Python
LastN(s, n) == SubSeq(s, Max(1, Len(s) - n + 1), Len(s))

\* list.remove(x): drops the first occurrence
ListRemove(s, x) ==
    LET i == CHOOSE k \in 1..Len(s) : s[k] = x /\ \A j \in 1..(k-1) : s[j] # x
    IN  SubSeq(s, 1, i - 1) \o SubSeq(s, i + 1, Len(s))

\* ------------------------------------------------- ConnectionManager (sync.py)
\* mutant: a websocket that is not in the list removes the last one instead
disconnectStale(conns, ws) ==
    IF ws \in Range(conns) THEN ListRemove(conns, ws)
    ELSE SubSeq(conns, 1, Len(conns) - 1)

\* mutant: a websocket that is not in the list is put back into it
disconnectToggle(conns, ws) ==
    IF ws \in Range(conns) THEN ListRemove(conns, ws) ELSE Append(conns, ws)

\* disconnect(): remove the websocket if it is in the list, else nothing
disconnect(conns, ws) ==
    IF ws \in Range(conns) THEN ListRemove(conns, ws) ELSE conns

\* "for conn in disconnected: self.disconnect(conn)"
RECURSIVE DisconnectAll(_, _)
DisconnectAll(conns, disc) ==
    IF disc = <<>> THEN conns
    ELSE DisconnectAll(disconnect(conns, Head(disc)), Tail(disc))

\* mutant: the timestamp is written whether or not the message has one
StampAlways(m, now) ==
    [f \in DOMAIN m \cup {"timestamp"} |->
        IF f = "timestamp" THEN now ELSE m[f]]

\* "if 'timestamp' not in message: message['timestamp'] = utcnow().isoformat()"
Stamp(m, now) ==
    IF "timestamp" \in DOMAIN m THEN m
    ELSE [f \in DOMAIN m \cup {"timestamp"} |->
             IF f = "timestamp" THEN now ELSE m[f]]

\* mutant: pop() in place of pop(0), the newest message is evicted
AppendHistoryPopLast(hist, m) ==
    LET h == Append(hist, m)
    IN  IF Len(h) > max_history THEN SubSeq(h, 1, Len(h) - 1) ELSE h

\* "self.message_history.append(message); if len > max_history: pop(0)"
AppendHistory(hist, m) ==
    LET h == Append(hist, m)
    IN  IF Len(h) > max_history THEN Tail(h) ELSE h

\* mutant: the send error is not caught and leaves broadcast
AfterSendErrorRaised == "raised"

\* "except Exception as e: logger.error(...)": the send error is swallowed
\* and the loop of broadcast goes on
AfterSendError == "broadcast"

\* mutant: the failed connection is not noted for removal
NoteFailedSkipped(disc, connection) == disc

\* "disconnected.append(connection)" of the except clause
NoteFailed(disc, connection) == Append(disc, connection)

\* mutant: the replay is sent without the guard
ShouldReplayAlways(hist) == TRUE

\* "if self.message_history:" guard of the history replay in connect()
ShouldReplay(hist) == hist # <<>>

\* mutant: [:10] in place of [-10:], the oldest messages are replayed
RecentHistoryHead(hist) == SubSeq(hist, 1, Min(Len(hist), replay_len))

\* "self.message_history[-10:]"
RecentHistory(hist) == LastN(hist, replay_len)

HistoryMessage(hist) == [type |-> "history", messages |-> RecentHistory(hist)]

\* ------------------------------------------------------------ observation
\* the record kept for every broadcast call: its caller, the message as the
\* caller passed it, the websockets in the stream's connection set during the
\* whole call (stable), whether that set changed during the call (mutated),
\* the websockets the call sent to with success (delivered) and with an
\* error (failed), the ones it removed itself (removed), and the connection
\* set of its hub when it returned (retActive)
NewPub(t, inbound) ==
    [task      |-> t,
     inbound   |-> inbound,
     stable    |-> Range(active_connections["main"]),
     mutated   |-> FALSE,
     delivered |-> {},
     failed    |-> {},
     done      |-> FALSE,
     removed   |-> {},
     retActive |-> {}]

\* the stream's connection set changed to newConns: every running call notes it
NoteMutation(ps, newConns) ==
    [p \in DOMAIN ps |->
        IF ps[p].done THEN ps[p]
        ELSE [ps[p] EXCEPT !.stable = @ \cap Range(newConns), !.mutated = TRUE]]

\* --------------------------------------------------------------------- Init
HubInit ==
    /\ active_connections = [h \in Hubs |-> <<>>]
    /\ message_history = [h \in Hubs |-> <<>>]
    /\ clock = 0
    /\ pc = [t \in Tasks |-> "idle"]
    /\ message = [t \in Tasks |-> [type |-> "none"]]
    /\ it = [t \in Tasks |-> 1]
    /\ disconnected = [t \in Tasks |-> <<>>]
    /\ broken = {}
    /\ received = [w \in WS |-> <<>>]
    /\ published = [h \in Hubs |-> <<>>]
    /\ pubs = <<>>
    /\ cur = [t \in Tasks |-> 0]
    /\ joinN = [w \in WS |-> -1]

\* ------------------------------------------------------ scan (network.py)
\* width of an address in bits (32 in IPv4), per specification
AddrBits == 2
PoolBits == 6

\* ThreadPoolExecutor(max_workers=50)
max_workers == 50

RECURSIVE Pow2(_)
Pow2(n) == IF n = 0 THEN 1 ELSE 2 * Pow2(n - 1)

\* the network_range argument: a text that ipaddress can parse into an
\* address and a prefix length, or one it cannot
NoRange == [valid |-> FALSE, bits |-> 0, addr |-> 0, prefix |-> 0]

Ranges(bits) ==
    {[valid |-> TRUE, bits |-> bits, addr |-> a, prefix |-> p] :
        a \in 0..(Pow2(bits) - 1), p \in 0..bits}

\* ipaddress.IPv4Network(network_range, strict=False): the host bits are masked
num_addresses(r) == Pow2(r.bits - r.prefix)

network_address(r) == r.addr - (r.addr % num_addresses(r))

\* network.hosts(): the addresses in order without the network and the
\* broadcast address; both addresses of a /31, the one address of a /32
hosts(r) ==
    IF ~r.valid THEN <<>>
    ELSE LET n == network_address(r)
             k == num_addresses(r)
         IN  IF k <= 2 THEN [i \in 1..k |-> n + i - 1]
                       ELSE [i \in 1..(k - 2) |-> n + i]

\* what the external calls of one probe do: ping answers, does not answer,
\* cannot be run or never returns; the lookups likewise
Outcomes ==
    {[ping |-> p, name |-> "-", mac |-> "-"] : p \in {"down", "error", "hang"}}
    \cup {[ping |-> "up", name |-> "hang", mac |-> "-"]}
    \cup {[ping |-> "up", name |-> n, mac |-> m] :
            n \in {"ok", "error"}, m \in {"ok", "absent", "error", "hang"}}

NoOutcome == [ping |-> "-", name |-> "-", mac |-> "-"]

\* only subprocess.run in ping_host is given a timeout; socket.gethostbyaddr
\* and subprocess.check_output(["arp", ...]) are called without one
HasTimeout(call) == call = "ping"

\* the probe never gets past a call that does not return and has no timeout
Blocks(o) ==
    \/ o.ping = "hang" /\ ~HasTimeout("ping")
    \/ o.ping = "up" /\ o.name = "hang" /\ ~HasTimeout("name")
    \/ o.ping = "up" /\ o.mac = "hang" /\ ~HasTimeout("mac")

HostName(h) == "host-" \o ToString(h)

Mac(h) == "aa:bb:cc:dd:ee:0" \o ToString(h)

sentinel == "00:00:00:00:00:00"

Raised == "<exception>"

None == [kind |-> "None"]

\* ping_host: returncode == 0; any exception, TimeoutExpired included, is False
ping_host(o) == o = "up"

\* mutant: the lookup's exception is not caught
get_hostnameUncaught(h, o) == IF o = "ok" THEN HostName(h) ELSE Raised

\* get_hostname: the name, "Unknown" on any exception
get_hostname(h, o) == IF o = "ok" THEN HostName(h) ELSE "Unknown"

\* get_mac_address: the address parsed from the arp output, the all-zero
\* address when none is found or on any exception
get_mac_address(h, o) == IF o = "ok" THEN Mac(h) ELSE sentinel

\* scan_single_host: a dict for a host that answers the ping, else None; an
\* exception of a step that does not catch it leaves the call
scan_single_host(h, o) ==
    IF ping_host(o.ping)
    THEN LET hostname == get_hostname(h, o.name)
             mac == get_mac_address(h, o.mac)
         IN  IF Raised \in {hostname, mac}
             THEN [kind |-> "exception"]
             ELSE [kind |-> "dict", ip |-> h, hostname |-> hostname,
                   mac |-> mac, status |-> "active"]
    ELSE None

\* mutant: the executor is not given max_workers
NeedsThreadAlways(n) == TRUE

\* the executor starts a worker thread on submit while it has fewer than
\* max_workers
NeedsThread(n) == n < max_workers

\* mutant: every result is appended
AppendResultAlways(devs, result) == Append(devs, result)

\* "if result: devices.append(result)"
AppendResult(devs, result) ==
    IF result.kind = "dict" THEN Append(devs, result) ELSE devs

\* probes that hold a worker thread
Running == {h \in DOMAIN probe : probe[h] \in {"running", "blocked"}}

Lowest(S) == {h \in S : \A g \in S : h <= g}

ScanInit(ranges) ==
    /\ scan_range \in ranges
    /\ scan_pc = "call"
    /\ submitted = 0
    /\ work_queue = <<>>
    /\ threads = 0
    /\ probe = [h \in Range(hosts(scan_range)) |-> "none"]
    /\ future = [h \in Range(hosts(scan_range)) |-> None]
    /\ outcome = [h \in Range(hosts(scan_range)) |-> NoOutcome]
    /\ devices = <<>>
    /\ dispatches = [h \in Range(hosts(scan_range)) |-> 0]

\* ------------------------- scan_devices and operator routes (routers/*.py)
NumIP == 3
MaxReq == 3

\* a field of an update request that is not given (None)
NoValue == "<none>"

\* Device(...) of scan_devices with the id the flush gives it
NewDevice(id, d, now) ==
    [id |-> id, mac |-> d.mac, ip |-> d.ip, hostname |-> d.hostname,
     role |-> "Others", status |-> "active", last_seen |-> now, updated_at |-> now]

\* Alert(message=f"New device detected: {hostname} ({ip})", level="info")
NewDeviceAlert(d) ==
    [kind |-> "New device detected", hostname |-> d.hostname, ip |-> d.ip,
     level |-> "info"]

\* mutant: the status reported by the scan is written to the row as well
UpdateExistingStatus(row, d, now) ==
    [row EXCEPT !.ip = d.ip, !.hostname = d.hostname, !.status = d.status,
                !.last_seen = now, !.updated_at = now]

\* the "if existing:" branch of scan_devices
UpdateExisting(row, d, now) ==
    [row EXCEPT !.ip = d.ip, !.hostname = d.hostname,
                !.last_seen = now, !.updated_at = now]

\* db.query(Device).filter(<column> == value).first(): the session does not
\* autoflush, so the query sees the table's rows and no pending Device
First(rows, col, value) ==
    LET hit == {k \in 1..Len(rows) : rows[k][col] = value}
    IN  IF hit = {} THEN 0 ELSE CHOOSE k \in hit : \A j \in hit : k <= j

\* the "for device_data in discovered:" loop of scan_devices from entry i on;
\* sess holds the session: the rows with their pending changes, the pending
\* new rows and alerts, and the two counters
RECURSIVE Reconcile(_, _, _, _)
Reconcile(discovered, i, sess, now) ==
    IF i > Len(discovered) THEN sess
    ELSE LET device_data == discovered[i]
             existing == First(sess.rows, "mac", device_data.mac)
         IN  IF existing # 0
             THEN Reconcile(discovered, i + 1,
                    [sess EXCEPT !.rows[existing] = UpdateExisting(@, device_data, now),
                                 !.updated_devices = @ + 1], now)
             ELSE Reconcile(discovered, i + 1,
                    [sess EXCEPT !.new = Append(@, NewDevice(
                                    Len(sess.rows) + Len(sess.new) + 1, device_data, now)),
                                 !.alerts = Append(@, NewDeviceAlert(device_data)),
                                 !.new_devices = @ + 1], now)

Session(rows) ==
    [rows |-> rows, new |-> <<>>, alerts |-> <<>>,
     new_devices |-> 0, updated_devices |-> 0]

\* mutant: the message counts the updated rows as new and the new as updated
ScanCompleteMessageSwapped(sess, discovered, n) ==
    [type |-> "scan_complete", seq |-> n,
     new_devices |-> sess.updated_devices,
     updated_devices |-> sess.new_devices,
     total |-> Len(discovered)]

\* the dict scan_devices passes to manager.broadcast
ScanCompleteMessage(sess, discovered, n) ==
    [type |-> "scan_complete", seq |-> n,
     new_devices |-> sess.new_devices,
     updated_devices |-> sess.updated_devices,
     total |-> Len(discovered)]

\* mutant: the unique index on Device.mac is missing
CommitOkAlways(sess) == TRUE

\* db.commit(): Device.mac is unique, the flush of two pending rows with one
\* mac raises IntegrityError and nothing is written
CommitOk(sess) ==
    \A i, j \in 1..Len(sess.new) : sess.new[i].mac = sess.new[j].mac => i = j

\* mutant: the broadcast is reached whether or not the commit went through
ReachesBroadcastAlways(committed) == TRUE

\* an exception in the try block skips the rest of it, the broadcast included
ReachesBroadcast(committed) == committed

\* the results scan_network can hand to scan_devices: a dict per host that
\* answered, in the order the probes completed
Entries ==
    {[kind |-> "dict", ip |-> ip, hostname |-> HostName(ip), mac |-> mac,
      status |-> "active"] :
        ip \in 1..NumIP, mac \in {Mac(1), Mac(2), sentinel}}

Snapshots ==
    {sn \in UNION {[1..n -> Entries] : n \in 0..NumIP} :
        \A i, j \in 1..Len(sn) : sn[i].ip = sn[j].ip => i = j}

\* the devices table when the run starts: empty, or a device an earlier
\* scan found at another address and the operator has since given a role
\* and blocked
Registries ==
    {<<>>,
     <<[id |-> 1, mac |-> Mac(1), ip |-> NumIP, hostname |-> "Unknown",
        role |-> "Admin", status |-> "blocked", last_seen |-> 0, updated_at |-> 0]>>}

ScanIdle == ScanInit({NoRange})

DbInit(registries, snapshots) ==
    /\ db_devices \in registries
    /\ db_alerts = <<>>
    /\ snapshot \in snapshots
    /\ reqs = 0
    /\ scan_log = <<>>
    /\ op_set = [id \in 1..Len(db_devices) |->
                    [role |-> db_devices[id].role, status |-> db_devices[id].status]]

DbIdle == DbInit({<<>>}, {<<>>})

Init == HubInit /\ ScanIdle /\ DbIdle

InitScan == HubInit /\ ScanInit(Ranges(AddrBits) \cup {NoRange}) /\ DbIdle

InitPool ==
    HubInit /\ DbIdle
    /\ ScanInit({[valid |-> TRUE, bits |-> PoolBits, addr |-> 0, prefix |-> 0]})

InitReconcile == HubInit /\ ScanIdle /\ DbInit(Registries, Snapshots)

\* ------------------------------------------------------------------ actions
\* websocket_sync -> manager.connect(websocket): accept, register, replay.
\* sendOk is the outcome of the history send_json; a failure is logged only
Connect(w, sendOk) ==
    /\ pc[w] = "idle"
    /\ w \notin broken
    /\ LET conns == Append(active_connections["main"], w)
           hist  == message_history["main"]
       IN  /\ active_connections' = [active_connections EXCEPT !["main"] = conns]
           /\ IF ShouldReplay(hist)
              THEN IF sendOk
                   THEN /\ received' = [received EXCEPT ![w] = Append(@, HistoryMessage(hist))]
                        /\ broken' = broken
                   ELSE /\ received' = received
                        /\ broken' = broken \cup {w}
              ELSE /\ sendOk
                   /\ UNCHANGED <<received, broken>>
           /\ pubs' = NoteMutation(pubs, conns)
    /\ joinN' = [joinN EXCEPT ![w] = Len(published["main"])]
    /\ pc' = [pc EXCEPT ![w] = "receive"]
    /\ UNCHANGED <<message_history, clock, message, it, disconnected,
                   published, cur>>
    /\ UNCHANGED <<scanVars, dbVars>>

\* broadcast(), from its entry to the first await: timestamp, history append,
\* eviction, empty local list, iterator created.  With no connection in the
\* list nothing is awaited and the call returns in the same step
BroadcastBegin(t, data) ==
    LET h == HubOf(t)
        m == Stamp(data, clock + 1)
        empty == active_connections[h] = <<>>
    IN  /\ clock' = clock + 1
        /\ message_history' = [message_history EXCEPT ![h] = AppendHistory(@, m)]
        /\ published' = [published EXCEPT ![h] = Append(@, m)]
        /\ pubs' = Append(pubs, [NewPub(t, data) EXCEPT !.done = empty])
        /\ IF empty
           THEN UNCHANGED <<message, cur, pc>>
           ELSE /\ message' = [message EXCEPT ![t] = m]
                /\ cur' = [cur EXCEPT ![t] = clock + 1]
                /\ pc' = [pc EXCEPT ![t] = "broadcast"]
        /\ UNCHANGED <<active_connections, it, disconnected, broken, received, joinN>>

\* the JSON objects a client may send: with or without a timestamp of its own
ClientMessage(n, hasTs) ==
    IF hasTs THEN [type |-> "client", seq |-> n, timestamp |-> 0]
    ELSE [type |-> "client", seq |-> n]

\* websocket_sync: "data = await websocket.receive_json(); await manager.broadcast(data)"
Receive(w, data, limit) ==
    /\ pc[w] = "receive"
    /\ clock < limit
    /\ BroadcastBegin(w, data)
    /\ UNCHANGED <<scanVars, dbVars>>

\* the message a route handler publishes (built without a timestamp)
RouteMessage(r, n) ==
    [type |-> CASE r = "devices"  -> "scan_complete"
                [] r = "firewall" -> "firewall_action"
                [] r = "users"    -> "user_created",
     seq |-> n]

\* a route handler reaches its "await manager.broadcast({...})"
RoutePublish(r, limit) ==
    /\ r \in Producers
    /\ pc[r] = "idle"
    /\ clock < limit
    /\ BroadcastBegin(r, RouteMessage(r, clock + 1))
    /\ UNCHANGED <<scanVars, dbVars>>

\* one iteration of "for connection in self.active_connections": the iterator
\* reads the live list at its index, the message is sent, a failure is noted.
\* sendOk is the outcome of send_json: a channel found broken stays broken
BroadcastStep(t, sendOk) ==
    LET h == HubOf(t)
        conns == active_connections[h]
    IN  /\ pc[t] = "broadcast"
        /\ it[t] <= Len(conns)
        /\ LET connection == conns[it[t]]
           IN  /\ sendOk => connection \notin broken
               /\ IF sendOk
                  THEN /\ received' = [received EXCEPT ![connection] = Append(@, message[t])]
                       /\ pubs' = [pubs EXCEPT ![cur[t]].delivered = @ \cup {connection}]
                       /\ UNCHANGED <<disconnected, broken>>
                       /\ pc' = pc
                  ELSE /\ disconnected' = [disconnected EXCEPT ![t] = NoteFailed(@, connection)]
                       /\ pubs' = [pubs EXCEPT ![cur[t]].failed = @ \cup {connection}]
                       /\ broken' = broken \cup {connection}
                       /\ received' = received
                       /\ pc' = [pc EXCEPT ![t] = AfterSendError]
        /\ it' = [it EXCEPT ![t] = @ + 1]
        /\ UNCHANGED <<active_connections, message_history, clock, message,
                       published, cur, joinN>>
        /\ UNCHANGED <<scanVars, dbVars>>

\* the iterator is exhausted: the failed connections are removed and
\* broadcast returns to its caller
BroadcastFinish(t) ==
    LET h == HubOf(t)
        conns == DisconnectAll(active_connections[h], disconnected[t])
    IN  /\ pc[t] = "broadcast"
        /\ it[t] > Len(active_connections[h])
        /\ active_connections' = [active_connections EXCEPT ![h] = conns]
        /\ pubs' = LET ps == IF h = "main" /\ conns # active_connections[h]
                             THEN NoteMutation(pubs, conns) ELSE pubs
                   IN  [ps EXCEPT ![cur[t]].done = TRUE,
                                  ![cur[t]].removed =
                                      Range(active_connections[h]) \ Range(conns),
                                  ![cur[t]].retActive = Range(conns)]
        /\ pc' = [pc EXCEPT ![t] = IF t \in WS THEN "receive" ELSE "idle"]
        \* the locals of the call are gone
        /\ message' = [message EXCEPT ![t] = [type |-> "none"]]
        /\ it' = [it EXCEPT ![t] = 1]
        /\ disconnected' = [disconnected EXCEPT ![t] = <<>>]
        /\ cur' = [cur EXCEPT ![t] = 0]
        /\ UNCHANGED <<message_history, clock, broken, received, published, joinN>>
        /\ UNCHANGED <<scanVars, dbVars>>

\* websocket_sync: receive_json raises WebSocketDisconnect -> manager.disconnect
ClientClose(w) ==
    /\ pc[w] = "receive"
    /\ LET conns == disconnect(active_connections["main"], w)
       IN  /\ active_connections' = [active_connections EXCEPT !["main"] = conns]
           /\ pubs' = IF conns # active_connections["main"]
                      THEN NoteMutation(pubs, conns) ELSE pubs
    /\ pc' = [pc EXCEPT ![w] = "closed"]
    /\ UNCHANGED <<message_history, clock, message, it, disconnected, broken,
                   received, published, cur, joinN>>
    /\ UNCHANGED <<scanVars, dbVars>>

\* websocket_sync: receive_json raises anything but WebSocketDisconnect (text
\* that is not JSON), or broadcast raises TypeError on a JSON value that is
\* not an object: the handler ends and "except WebSocketDisconnect" is skipped
HandlerError(w) ==
    /\ pc[w] = "receive"
    /\ pc' = [pc EXCEPT ![w] = "crashed"]
    /\ UNCHANGED <<active_connections, message_history, clock, message, it,
                   disconnected, broken, received, published, pubs, cur, joinN>>
    /\ UNCHANGED <<scanVars, dbVars>>

\* --------------------------------------------- scan_network (network.py)
\* "network = ipaddress.IPv4Network(network_range, strict=False)"; on any
\* exception the function returns the empty list
ScanStart ==
    /\ scan_pc = "call"
    /\ IF scan_range.valid
       THEN scan_pc' = "pool"
       ELSE scan_pc' = "returned"
    /\ UNCHANGED <<scan_range, submitted, work_queue, threads, probe, future,
                   outcome, devices, dispatches>>
    /\ UNCHANGED <<hubVars, dbVars>>

\* one "executor.submit(scan_single_host, str(ip))" of the dict comprehension
\* over network.hosts()
Submit ==
    /\ scan_pc = "pool"
    /\ submitted < Len(hosts(scan_range))
    /\ LET ip == hosts(scan_range)[submitted + 1]
       IN  /\ work_queue' = Append(work_queue, ip)
           /\ probe' = [probe EXCEPT ![ip] = "queued"]
    /\ threads' = IF NeedsThread(threads) THEN threads + 1 ELSE threads
    /\ submitted' = submitted + 1
    /\ UNCHANGED <<scan_range, scan_pc, future, outcome, devices, dispatches>>
    /\ UNCHANGED <<hubVars, dbVars>>

\* a worker thread that runs no probe takes the next one from the queue
Dispatch ==
    /\ work_queue # <<>>
    /\ Cardinality(Running) < threads
    /\ LET ip == Head(work_queue)
       IN  /\ probe' = [probe EXCEPT ![ip] = "running"]
           /\ dispatches' = [dispatches EXCEPT ![ip] = @ + 1]
    /\ work_queue' = Tail(work_queue)
    /\ UNCHANGED <<scan_range, scan_pc, submitted, threads, future, outcome, devices>>
    /\ UNCHANGED <<hubVars, dbVars>>

\* scan_single_host(ip) runs in its worker: it returns its result, or stays
\* in an external call that does not return
Complete(ip, o) ==
    /\ probe[ip] = "running"
    /\ outcome' = [outcome EXCEPT ![ip] = o]
    /\ IF Blocks(o)
       THEN /\ probe' = [probe EXCEPT ![ip] = "blocked"]
            /\ future' = future
       ELSE /\ probe' = [probe EXCEPT ![ip] = "finished"]
            /\ future' = [future EXCEPT ![ip] = scan_single_host(ip, o)]
    /\ UNCHANGED <<scan_range, scan_pc, submitted, work_queue, threads, devices,
                   dispatches>>
    /\ UNCHANGED <<hubVars, dbVars>>

\* one round of "for future in as_completed(futures)": future.result() is
\* the probe's result or raises its exception
Collect(ip) ==
    /\ scan_pc = "pool"
    /\ submitted = Len(hosts(scan_range))
    /\ probe[ip] = "finished"
    /\ probe' = [probe EXCEPT ![ip] = "collected"]
    /\ IF future[ip].kind = "exception"
       THEN /\ scan_pc' = "raised"
            /\ devices' = devices
       ELSE /\ scan_pc' = scan_pc
            /\ devices' = AppendResult(devices, future[ip])
    /\ UNCHANGED <<scan_range, submitted, work_queue, threads, future, outcome,
                   dispatches>>
    /\ UNCHANGED <<hubVars, dbVars>>

\* as_completed is exhausted, the executor is shut down: "return devices"
ScanReturn ==
    /\ scan_pc = "pool"
    /\ submitted = Len(hosts(scan_range))
    /\ \A ip \in DOMAIN probe : probe[ip] = "collected"
    /\ scan_pc' = "returned"
    /\ UNCHANGED <<scan_range, submitted, work_queue, threads, probe, future,
                   outcome, devices, dispatches>>
    /\ UNCHANGED <<hubVars, dbVars>>

\* --------------------------------------- route handlers on the device table
\* POST /api/devices/scan.  dbUp: the database answers
ScanDevices(dbUp) ==
    /\ reqs < MaxReq
    /\ pc["devices"] = "idle"
    /\ LET now == reqs + 1
           sess == Reconcile(snapshot, 1, Session(db_devices), now)
           committed == dbUp /\ CommitOk(sess)
           response == IF committed
                       THEN [status |-> 200, discovered |-> Len(snapshot),
                             new_devices |-> sess.new_devices,
                             updated_devices |-> sess.updated_devices]
                       ELSE [status |-> 500, discovered |-> 0,
                             new_devices |-> 0, updated_devices |-> 0]
           after == IF committed THEN sess.rows \o sess.new ELSE db_devices
           events == IF committed THEN sess.alerts ELSE <<>>
       IN  /\ db_devices' = after
           /\ db_alerts' = db_alerts \o events
           /\ op_set' = [id \in 1..Len(after) |->
                            IF id <= Len(db_devices) THEN op_set[id]
                            ELSE [role |-> after[id].role, status |-> after[id].status]]
           /\ scan_log' = Append(scan_log,
                            [req |-> now, dbUp |-> dbUp, before |-> db_devices,
                             after |-> after, events |-> events,
                             response |-> response,
                             published |-> ReachesBroadcast(committed),
                             observers |-> Range(active_connections["main"])])
           /\ IF ReachesBroadcast(committed)
              THEN BroadcastBegin("devices",
                        ScanCompleteMessage(sess, snapshot, clock + 1))
              ELSE UNCHANGED hubVars
    /\ reqs' = reqs + 1
    /\ UNCHANGED <<snapshot, scanVars>>

\* PATCH /api/devices/{device_id} for a device that exists
UpdateDevice(device_id, role, status) ==
    /\ reqs < MaxReq
    /\ pc["devices"] = "idle"
    /\ device_id \in 1..Len(db_devices)
    /\ LET now == reqs + 1
           new_role == IF role # NoValue THEN role ELSE db_devices[device_id].role
           new_status == IF status # NoValue THEN status ELSE db_devices[device_id].status
       IN  /\ db_devices' = [db_devices EXCEPT ![device_id].role = new_role,
                                               ![device_id].status = new_status,
                                               ![device_id].updated_at = now]
           /\ op_set' = [op_set EXCEPT ![device_id] =
                            [role |-> new_role, status |-> new_status]]
           /\ BroadcastBegin("devices",
                [type |-> "device_updated", seq |-> clock + 1,
                 device_id |-> device_id, role |-> new_role, status |-> new_status])
    /\ reqs' = reqs + 1
    /\ UNCHANGED <<db_alerts, snapshot, scan_log, scanVars>>

\* POST /api/firewall/action with action "block" or "unblock".  success is the
\* outcome of the firewall command
FirewallAction(ip, action, success) ==
    /\ reqs < MaxReq
    /\ pc["firewall"] = "idle"
    /\ LET now == reqs + 1
           device == First(db_devices, "ip", ip)
           new_status == IF action = "block" THEN "blocked" ELSE "active"
       IN  /\ IF device # 0
              THEN /\ db_devices' = [db_devices EXCEPT ![device].status = new_status,
                                                      ![device].updated_at = now]
                   /\ op_set' = [op_set EXCEPT ![device].status = new_status]
              ELSE UNCHANGED <<db_devices, op_set>>
           /\ db_alerts' = Append(db_alerts,
                [kind |-> "Firewall " \o action, hostname |-> "", ip |-> ip,
                 level |-> IF success THEN "info" ELSE "danger"])
           /\ BroadcastBegin("firewall",
                [type |-> "firewall_action", seq |-> clock + 1, action |-> action,
                 ip |-> ip, success |-> success])
    /\ reqs' = reqs + 1
    /\ UNCHANGED <<snapshot, scan_log, scanVars>>

\* POST /api/firewall/kick/{device_id} for a device that exists
KickDevice(device_id) ==
    /\ reqs < MaxReq
    /\ pc["firewall"] = "idle"
    /\ device_id \in 1..Len(db_devices)
    /\ LET now == reqs + 1
           device == db_devices[device_id]
       IN  /\ db_devices' = [db_devices EXCEPT ![device_id].status = "kicked",
                                               ![device_id].updated_at = now]
           /\ op_set' = [op_set EXCEPT ![device_id].status = "kicked"]
           /\ db_alerts' = Append(db_alerts,
                [kind |-> "kicked", hostname |-> device.hostname, ip |-> device.ip,
                 level |-> "warning"])
           /\ BroadcastBegin("firewall",
                [type |-> "device_kicked", seq |-> clock + 1,
                 device_id |-> device_id, ip |-> device.ip,
                 hostname |-> device.hostname])
    /\ reqs' = reqs + 1
    /\ UNCHANGED <<snapshot, scan_log, scanVars>>

\* ------------------------------------------------------------ specifications
Next ==
    \/ \E w \in WS, sendOk \in BOOLEAN : Connect(w, sendOk)
    \/ \E w \in WS, hasTs \in BOOLEAN :
          Receive(w, ClientMessage(clock + 1, hasTs), MaxPub)
    \/ \E r \in Producers : RoutePublish(r, MaxPub)
    \/ \E t \in Tasks, sendOk \in BOOLEAN : BroadcastStep(t, sendOk)
    \/ \E t \in Tasks : BroadcastFinish(t)
    \/ \E w \in WS : ClientClose(w)
    \/ \E w \in WS : HandlerError(w)

Spec == Init /\ [][Next]_vars

\* the scan trigger publishing again and again on the hub of routers/devices.py,
\* which no subscriber ever joins: the history of one hub over a long run
NextHistory ==
    RoutePublish("devices", MaxHistPub)

SpecHistory == Init /\ [][NextHistory]_vars

\* one client relaying a long run of messages while the others subscribe at
\* any moment of it
NextReplay ==
    \/ \E w \in WS, sendOk \in BOOLEAN : Connect(w, sendOk)
    \/ Receive(WSNames[1], ClientMessage(clock + 1, FALSE), MaxReplayPub)
    \/ \E t \in WS, sendOk \in BOOLEAN : BroadcastStep(t, sendOk)
    \/ \E t \in WS : BroadcastFinish(t)

SpecReplay == Init /\ [][NextReplay]_vars

\* the scan alone: every range of AddrBits bits and a text that is no range,
\* every outcome of the external calls, every order of completion
NextScan ==
    \/ ScanStart
    \/ Submit
    \/ Dispatch
    \/ \E ip \in DOMAIN probe, o \in Outcomes : Complete(ip, o)
    \/ \E ip \in DOMAIN probe : Collect(ip)
    \/ ScanReturn

SpecScan == InitScan /\ [][NextScan]_vars

\* the thread pool under load: one range with more hosts than max_workers,
\* no host answers, the probes end and are collected in the order they began
NextPool ==
    \/ ScanStart
    \/ Submit
    \/ Dispatch
    \/ \E ip \in Lowest({h \in DOMAIN probe : probe[h] = "running"}) :
          Complete(ip, [ping |-> "down", name |-> "-", mac |-> "-"])
    \/ \E ip \in Lowest({h \in DOMAIN probe : probe[h] = "finished"}) : Collect(ip)
    \/ ScanReturn

SpecPool == InitPool /\ [][NextPool]_vars

\* the device table: scans that all find the same snapshot, between
\* operator requests
NextReconcile ==
    \/ \E dbUp \in BOOLEAN : ScanDevices(dbUp)
    \/ \E id \in 1..Len(db_devices), role \in {NoValue, "Admin"},
          status \in {NoValue, "blocked"} : UpdateDevice(id, role, status)
    \/ \E ip \in 1..NumIP, action \in {"block", "unblock"}, success \in BOOLEAN :
          FirewallAction(ip, action, success)
    \/ \E id \in 1..Len(db_devices) : KickDevice(id)

SpecReconcile == InitReconcile /\ [][NextReconcile]_vars

\* scans while clients subscribe to the stream
NextObserver ==
    \/ \E w \in WS, sendOk \in BOOLEAN : Connect(w, sendOk)
    \/ \E dbUp \in BOOLEAN : ScanDevices(dbUp)

SpecObserver == InitReconcile /\ [][NextObserver]_vars

\* ------------------------------------------------------- vocabulary of claims
IsHistory(x) == x.type = "history"

\* positions of the live (non-replay) messages a websocket was sent
LivePos(w) == {i \in 1..Len(received[w]) : ~IsHistory(received[w][i])}

\* position of a message in a list that holds it
Pos(s, x) == CHOOSE k \in 1..Len(s) : s[k] = x

Done == {p \in DOMAIN pubs : pubs[p].done}

\* the calls made by the stream handler (relays of client messages)
Relays == {p \in Done : pubs[p].task \in WS}

\* C1: on every hub the history buffer is the last min(n, 100) of the n
\* messages published on it, in publish order; after 150 publishes it is
\* events 51..150
C1_HistoryBound ==
    \A h \in Hubs :
        LET n == Len(published[h])
            k == IF n < 100 THEN n ELSE 100
        IN  /\ Len(message_history[h]) = k
            /\ \A i \in 1..k : message_history[h][i] = published[h][n - k + i]
            /\ n = 150 => /\ message_history[h][1].seq = 51
                           /\ message_history[h][100].seq = 150

C1_Witness ==
    /\ Len(published["devices"]) = 150
    /\ Len(message_history["devices"]) = 100

\* C2: an event published by a route handler is delivered to every websocket
\* that is connected to the event stream during the whole publish
C2_ProducersReachStream ==
    \A p \in Done :
        pubs[p].task \in Producers => pubs[p].stable \subseteq pubs[p].delivered

\* C3: every websocket is sent its live messages in the order in which they
\* were appended to the history
C3_PerSubscriberOrder ==
    \A w \in WS : \A i, j \in LivePos(w) :
        i < j => Pos(published["main"], received[w][i])
                    < Pos(published["main"], received[w][j])

\* C4: a finished publish has delivered to every websocket that was in the
\* connection set during the whole publish and whose send did not fail
C4_NoLostDelivery ==
    \A p \in Relays :
        (pubs[p].stable \ pubs[p].failed) \subseteq pubs[p].delivered

\* C6: when the send to a websocket A failed in a publish, every other
\* websocket B connected during the whole publish was still delivered to
C6_DisconnectionIsolation ==
    \A p \in Relays : \A A \in pubs[p].failed :
        \A B \in pubs[p].stable \ {A} :
            B \notin pubs[p].failed => B \in pubs[p].delivered

\* C5: the replay a websocket was sent on subscribing after N publishes is
\* the last min(N, 10) published events, oldest first, and it is the only
\* replay the websocket is ever sent (a subscribe sends to nobody else)
C5_ReplayCorrect ==
    \A w \in WS :
        LET N == joinN[w]
            k == IF N < 10 THEN N ELSE 10
        IN  /\ \A i \in 1..Len(received[w]) :
                  IsHistory(received[w][i]) =>
                      /\ i = 1
                      /\ Len(received[w][i].messages) = k
                      /\ \A j \in 1..k :
                            received[w][i].messages[j] = published["main"][N - k + j]
            /\ (N > 0 /\ w \notin broken) =>
                  (received[w] # <<>> /\ IsHistory(received[w][1]))

C5_Witness ==
    \E w \in WS :
        /\ joinN[w] > 10
        /\ received[w] # <<>>
        /\ IsHistory(received[w][1])
        /\ received[w][1].messages[1].seq = joinN[w] - 9

\* C7 as claimed: when a publish returns, the websockets whose send failed
\* are out of the connection set and those whose send succeeded are in it
C7_FailedOutDeliveredIn ==
    \A p \in Relays :
        /\ pubs[p].failed \cap pubs[p].retActive = {}
        /\ pubs[p].delivered \subseteq pubs[p].retActive

\* C7 amended: when a publish returns, the websockets whose send failed are
\* out of the connection set, the publish has removed no other websocket, no
\* websocket was sent the event twice or after its failure, and no send
\* error has left broadcast
C7_FailedOutOnly ==
    /\ \A t \in Tasks : pc[t] # "raised"
    /\ \A p \in Done :
          /\ pubs[p].failed \cap pubs[p].retActive = {}
          /\ pubs[p].removed \subseteq pubs[p].failed
          /\ pubs[p].delivered \cap pubs[p].failed = {}
    /\ \A w \in WS : \A i, j \in LivePos(w) :
          received[w][i].seq = received[w][j].seq => i = j

C7_Witness ==
    \E p \in Relays :
        /\ pubs[p].removed # {}
        /\ pubs[p].delivered # {}
        /\ pubs[p].delivered \subseteq pubs[p].retActive

C10_HistoryAlways ==
    \A w \in WS :
        (joinN[w] >= 0 /\ w \notin broken) =>
            /\ received[w] # <<>>
            /\ \A i \in 1..Len(received[w]) : IsHistory(received[w][i]) <=> i = 1

\* C10 amended: a websocket that subscribed while the history was not empty
\* is sent one history message, before any live message; one that
\* subscribed while the history was empty is sent none
C10_HistoryWhenNonEmpty ==
    \A w \in WS :
        /\ \A i \in 1..Len(received[w]) : IsHistory(received[w][i]) => i = 1
        /\ joinN[w] = 0 => \A i \in 1..Len(received[w]) : ~IsHistory(received[w][i])
        /\ (joinN[w] > 0 /\ (w \notin broken \/ received[w] # <<>>)) =>
              (received[w] # <<>> /\ IsHistory(received[w][1]))

C10_Witness ==
    /\ \E w \in WS : joinN[w] = 0 /\ Len(received[w]) > 0
    /\ \E w \in WS : joinN[w] > 0 /\ Len(received[w]) > 1

\* ---------------------------------------------------------------- C11
\* C11: unsubscribing is idempotent.  When the stream handler's disconnect
\* path runs for a websocket (ClientClose), the websocket is absent from the
\* active set afterwards; when it was already absent (a failed delivery of a
\* publish removed it before), the active set and the history are left as
\* they were; and the handler ends closed, not crashed: no error is raised.
C11_UnsubscribeIdempotent ==
    [][\A w \in WS :
          (pc[w] = "receive" /\ pc'[w] = "closed") =>
              /\ w \notin Range(active_connections'["main"])
              /\ w \notin Range(active_connections["main"]) =>
                    /\ active_connections' = active_connections
                    /\ message_history' = message_history]_vars

\* a websocket that a failed delivery removed has gone through the
\* handler's disconnect path as well, while another is still subscribed
C11_Witness ==
    \E w \in WS :
        /\ pc[w] = "closed"
        /\ \E p \in DOMAIN pubs : pubs[p].done /\ w \in pubs[p].removed
        /\ active_connections["main"] # <<>>

\* ---------------------------------------------------------------- C12
\* the host addresses of a range, stated without network.hosts(): every
\* address of the network but its first and last, all of them when the
\* network has at most two
UsableAddresses(r) ==
    LET size == Pow2(r.bits - r.prefix)
        inNet == {a \in 0..(Pow2(r.bits) - 1) : a \div size = r.addr \div size}
    IN  IF size <= 2 THEN inNet
        ELSE {a \in inNet : a % size # 0 /\ a % size # size - 1}

EntriesFor(ip) == {i \in 1..Len(devices) : devices[i].kind = "dict" /\ devices[i].ip = ip}

\* C12: when scan_network has returned for a range it could parse, the list
\* holds exactly one result for every host address of the range whose ping
\* succeeded and nothing else, whatever order the probes completed in.
C12_ExactlyTheLiveHosts ==
    (scan_pc = "returned" /\ scan_range.valid) =>
        /\ DOMAIN outcome = UsableAddresses(scan_range)
        /\ \A ip \in UsableAddresses(scan_range) :
              Cardinality(EntriesFor(ip)) = IF outcome[ip].ping = "up" THEN 1 ELSE 0
        /\ \A i \in 1..Len(devices) :
              /\ devices[i].kind = "dict"
              /\ devices[i].ip \in UsableAddresses(scan_range)

\* a network of four addresses: the first host answers, the second does
\* not, and the scan has returned the one result
C12_Witness ==
    /\ scan_pc = "returned"
    /\ scan_range.valid /\ scan_range.bits - scan_range.prefix = 2
    /\ \E a, b \in DOMAIN outcome :
          /\ b = a + 1
          /\ outcome[a].ping = "up" /\ outcome[b].ping = "down"
          /\ Len(devices) = 1 /\ devices[1].ip = a

\* ---------------------------------------------------------------- C13
\* C13: a range that cannot be parsed makes the scan fail with an error that
\* reaches the caller, and no probe is dispatched.
C13_InvalidRangeRaises ==
    (~scan_range.valid /\ scan_pc # "call") =>
        /\ scan_pc = "raised"
        /\ submitted = 0

\* ---------------------------------------------------------------- C14
\* C14: the scan does not raise, whatever fails inside the probes; in the
\* list it returns, a host whose ping failed is left out, a host whose name
\* lookup failed is named "Unknown", and a host whose neighbour-table lookup
\* failed carries the all-zero address.
C14_NeverPartiallyFails ==
    /\ scan_pc # "raised"
    /\ \A ip \in DOMAIN future : future[ip].kind # "exception"
    /\ scan_pc = "returned" =>
          \A ip \in DOMAIN outcome :
              /\ outcome[ip].ping # "up" => EntriesFor(ip) = {}
              /\ outcome[ip].ping = "up" =>
                    \E i \in EntriesFor(ip) :
                        /\ outcome[ip].name # "ok" => devices[i].hostname = "Unknown"
                        /\ outcome[ip].name = "ok" => devices[i].hostname # "Unknown"
                        /\ outcome[ip].mac # "ok" => devices[i].mac = "00:00:00:00:00:00"
                        /\ outcome[ip].mac = "ok" => devices[i].mac # "00:00:00:00:00:00"

\* the scan has returned with one host whose ping could not be run and one
\* host that answered while both of its lookups failed
C14_Witness ==
    /\ scan_pc = "returned"
    /\ \E a, b \in DOMAIN outcome :
          /\ outcome[a].ping = "error"
          /\ outcome[b] = [ping |-> "up", name |-> "error", mac |-> "error"]
          /\ Len(devices) = 1 /\ devices[1].ip = b

\* ---------------------------------------------------------------- C15
\* C15: at every moment at most 50 probes are executing, no host address is
\* dispatched to a probe more than once, and when the scan has returned every
\* host address of the range has been dispatched exactly once.
C15_PoolBound ==
    /\ Cardinality(Running) <= 50
    /\ \A ip \in DOMAIN dispatches : dispatches[ip] <= 1
    /\ scan_pc = "returned" =>
          /\ DOMAIN dispatches = UsableAddresses(scan_range)
          /\ \A ip \in DOMAIN dispatches : dispatches[ip] = 1

\* fifty probes are executing while more hosts wait in the queue
C15_Witness ==
    /\ Cardinality(Running) = 50
    /\ work_queue # <<>>

\* ---------------------------------------------------------------- C16
\* C16: every external call of a probe is bounded by a timeout: no probe
\* stays in a call that does not return.
C16_ProbesBounded ==
    \A ip \in DOMAIN probe : probe[ip] # "blocked"

\* ---------------------------------------------------------------- C17
\* the scan requests that went through, and a row of the table by its id
Scans == DOMAIN scan_log

\* C17: a scan never overwrites what the operator assigned.  Every row that
\* existed before a scan keeps its id, hardware address, role and status
\* through it, and at every moment the role and the status of every device
\* are the ones last set outside a scan (by its creation, an update request,
\* a firewall action or a kick).
C17_OperatorFieldsKept ==
    /\ \A k \in Scans :
          \A id \in 1..Len(scan_log[k].before) :
              LET b == scan_log[k].before[id]
                  a == scan_log[k].after[id]
              IN  /\ Len(scan_log[k].after) >= Len(scan_log[k].before)
                  /\ a.id = b.id /\ a.mac = b.mac
                  /\ a.role = b.role /\ a.status = b.status
    /\ \A id \in 1..Len(db_devices) :
          /\ db_devices[id].role = op_set[id].role
          /\ db_devices[id].status = op_set[id].status

\* a scan has moved a device to another address and renamed it while the
\* device kept a role and a status that are not the defaults
C17_Witness ==
    \E k \in Scans : \E id \in 1..Len(scan_log[k].before) :
        /\ scan_log[k].after[id].ip # scan_log[k].before[id].ip
        /\ scan_log[k].after[id].hostname # scan_log[k].before[id].hostname
        /\ scan_log[k].after[id].role = "Admin"
        /\ scan_log[k].after[id].status \in {"blocked", "kicked"}

\* ---------------------------------------------------------------- C18
RowsWith(rows, mac) == {i \in 1..Len(rows) : rows[i].mac = mac}

\* entries of the snapshot whose hardware address has no row in `rows`
Unknown(rows) == {i \in 1..Len(snapshot) : RowsWith(rows, snapshot[i].mac) = {}}

\* C18: a scan with the database up creates, for every snapshot entry whose
\* hardware address had no row, exactly one row with role "Others" and
\* status "active" and exactly one "new device" alert carrying the entry's
\* name and address, and answers with new_devices counting these entries.
C18_NewDeviceCreated ==
    \A k \in Scans :
        scan_log[k].dbUp =>
            /\ \A i \in Unknown(scan_log[k].before) :
                  /\ \E r \in RowsWith(scan_log[k].after, snapshot[i].mac) :
                        /\ RowsWith(scan_log[k].after, snapshot[i].mac) = {r}
                        /\ scan_log[k].after[r].role = "Others"
                        /\ scan_log[k].after[r].status = "active"
                  /\ Cardinality({e \in 1..Len(scan_log[k].events) :
                        /\ scan_log[k].events[e].kind = "New device detected"
                        /\ scan_log[k].events[e].hostname = snapshot[i].hostname
                        /\ scan_log[k].events[e].ip = snapshot[i].ip}) = 1
            /\ scan_log[k].response.status = 200
            /\ scan_log[k].response.new_devices =
                  Cardinality(Unknown(scan_log[k].before))

\* ---------------------------------------------------------------- C19
\* C19: of two scans in succession that find the same snapshot with the
\* database up, the second creates no row and no alert and answers with
\* new_devices = 0 and updated_devices = the size of the snapshot.
C19_SecondScanOnlyUpdates ==
    \A k \in Scans :
        (/\ k > 1
         /\ scan_log[k].req = scan_log[k - 1].req + 1
         /\ scan_log[k].dbUp /\ scan_log[k - 1].dbUp) =>
            /\ Len(scan_log[k].after) = Len(scan_log[k].before)
            /\ scan_log[k].events = <<>>
            /\ scan_log[k].response.status = 200
            /\ scan_log[k].response.new_devices = 0
            /\ scan_log[k].response.updated_devices = Len(snapshot)

\* ---------------------------------------------------------------- C20
ScanCompletePublished ==
    {i \in 1..Len(published["devices"]) : published["devices"][i].type = "scan_complete"}

\* C20: a scan's writes are committed before its event is published, or
\* none is applied and nothing is published.  For every scan request: if its
\* scan_complete message was published, every entry of the snapshot has its
\* row in the table with the entry's address and name and the message's
\* counts are those of the committed writes; if it was not, the scan left
\* the table and the alerts untouched.  As many scan_complete messages were
\* published as scans committed.
C20_WriteBeforePublish ==
    /\ \A k \in Scans :
          LET s == scan_log[k]
          IN  /\ s.published =>
                    /\ s.response.status = 200
                    /\ \A i \in 1..Len(snapshot) :
                          \E r \in RowsWith(s.after, snapshot[i].mac) :
                              s.after[r].last_seen = s.req
                    /\ Len(s.after) - Len(s.before) = s.response.new_devices
                    /\ Len(s.events) = s.response.new_devices
              /\ ~s.published =>
                    /\ s.response.status = 500
                    /\ s.after = s.before
                    /\ s.events = <<>>
    /\ Cardinality(ScanCompletePublished) =
          Cardinality({k \in Scans : scan_log[k].response.status = 200})

\* one scan failed with the update of an existing row pending and published
\* nothing, another committed a new row next to an updated one and published
C20_Witness ==
    \E j, k \in Scans :
        /\ ~scan_log[j].published
        /\ Unknown(scan_log[j].before) # DOMAIN snapshot
        /\ scan_log[k].published
        /\ Len(scan_log[k].after) > Len(scan_log[k].before)
        /\ scan_log[k].before # <<>>
        /\ Unknown(scan_log[k].before) # DOMAIN snapshot

\* ---------------------------------------------------------------- C21
\* entries of the snapshot that can be persisted on their own: the first
\* entry with its hardware address
Persistable == {i \in 1..Len(snapshot) :
                    \A j \in 1..(i - 1) : snapshot[j].mac # snapshot[i].mac}

\* C21: when persistence fails for one entry of the snapshot, the other
\* entries are still reconciled and reported: after every scan with the
\* database up, every entry that can be persisted on its own has its row,
\* seen at the time of this scan, and the request answers with the counts.
C21_EntryFailureIsolated ==
    \A k \in Scans :
        scan_log[k].dbUp =>
            /\ scan_log[k].response.status = 200
            /\ \A i \in Persistable :
                  \E r \in RowsWith(scan_log[k].after, snapshot[i].mac) :
                      scan_log[k].after[r].last_seen = scan_log[k].req

\* ---------------------------------------------------------------- C22
\* C22: the all-zero hardware address is never a key of the device table:
\* no row carries it, so no two hosts are matched against one row by it.
C22_SentinelNeverKey ==
    \A id \in 1..Len(db_devices) : db_devices[id].mac # "00:00:00:00:00:00"

\* ---------------------------------------------------------------- C23
\* C23: the scan request fails hard only when the database is unavailable
\* (the range of the request is the host's own network and always parses);
\* whatever the snapshot holds, it answers with the counts.
C23_HardErrorOnlyWhenDown ==
    \A k \in Scans :
        /\ scan_log[k].response.status = 500 => ~scan_log[k].dbUp
        /\ scan_log[k].response.status = 200 =>
              scan_log[k].response.discovered = Len(snapshot)

\* ---------------------------------------------------------------- C24
\* the scans that answered 200, and the n-th scan_complete message published
Succeeded == {k \in Scans : scan_log[k].response.status = 200}

NthScanComplete(n) ==
    published["devices"][CHOOSE i \in ScanCompletePublished :
        Cardinality({j \in ScanCompletePublished : j <= i}) = n]

\* C24: every scan request that succeeds performs exactly one publish, of a
\* scan_complete message whose new_devices, updated_devices and total are
\* the new_devices, updated_devices and discovered of its response; a scan
\* request that fails performs none.  Nothing of a scan is published on
\* another hub.
C24_OnePublishPerScan ==
    /\ Cardinality(ScanCompletePublished) = Cardinality(Succeeded)
    /\ \A k \in Scans : scan_log[k].published <=> k \in Succeeded
    /\ \A k \in Succeeded :
          LET m == NthScanComplete(Cardinality({j \in Succeeded : j <= k}))
          IN  /\ m.new_devices = scan_log[k].response.new_devices
              /\ m.updated_devices = scan_log[k].response.updated_devices
              /\ m.total = scan_log[k].response.discovered
    /\ \A h \in Hubs \ {"devices"} : \A i \in 1..Len(published[h]) :
          published[h][i].type # "scan_complete"

\* a scan that found one new and one known device has published, and a scan
\* that failed has not
C24_Witness ==
    \E j, k \in Scans :
        /\ j \notin Succeeded
        /\ k \in Succeeded
        /\ scan_log[k].response.new_devices = 1
        /\ scan_log[k].response.updated_devices = 1
        /\ Cardinality(ScanCompletePublished) = 1

\* ---------------------------------------------------------------- C30
\* the hardware addresses of the rows a scan request committed as new
NewMacs(k) ==
    {scan_log[k].after[r].mac :
        r \in (Len(scan_log[k].before) + 1)..Len(scan_log[k].after)}

C25_NewDeviceEventsDelivered ==
    \A k \in Scans : \A w \in scan_log[k].observers :
        (scan_log[k].published /\ w \notin broken) =>
            Cardinality(LivePos(w)) >= scan_log[k].response.new_devices

\* ---------------------------------------------------------------- C26
\* C26: a subscriber is removed from the active set at its first failed
\* send, the history replay of connect included: a websocket on which a send
\* has failed is in the active set only as long as the publish that met the
\* failure has not returned.
C26_RemovedAtFirstFailedSend ==
    \A w \in WS :
        (w \in broken /\ w \in Range(active_connections["main"])) =>
            \E p \in DOMAIN pubs : ~pubs[p].done /\ w \in pubs[p].failed

\* ---------------------------------------------------------------- C27
\* websockets that were subscribed and are no longer
Left == {w \in WS : joinN[w] >= 0 /\ w \notin Range(active_connections["main"])}

\* C27: Disconnected is terminal.  In every step, a websocket that has left
\* the active set is not in it afterwards and is sent nothing, and the
\* active set holds no websocket twice.
C27_DisconnectedIsTerminal ==
    [][/\ \A w \in Left :
             /\ w \notin Range(active_connections'["main"])
             /\ received'[w] = received[w]
       /\ \A i, j \in 1..Len(active_connections'["main"]) :
             active_connections'["main"][i] = active_connections'["main"][j] => i = j]_vars

\* a websocket subscribed before anything was published and left; a relay
\* of another websocket, during which the active set did not change and
\* did not hold it, was delivered and has returned
C27_Witness ==
    \E w \in Left : \E p \in Done :
        /\ joinN[w] = 0
        /\ pubs[p].task \in WS \ {w}
        /\ ~pubs[p].mutated
        /\ w \notin pubs[p].stable
        /\ pubs[p].delivered # {}

\* ---------------------------------------------------------------- C28
\* C28: no websocket is sent the same published message both inside its
\* history replay and as a live message.
C28_NoDuplicateAcrossReplay ==
    \A w \in WS : \A i, j \in 1..Len(received[w]) :
        (IsHistory(received[w][j]) /\ ~IsHistory(received[w][i])) =>
            \A n \in 1..Len(received[w][j].messages) :
                received[w][j].messages[n].seq # received[w][i].seq

\* ---------------------------------------------------------------- C29
\* C29: when the stream handler of a websocket has ended, by a client
\* disconnect or by an error, the websocket is not in the active set.
C29_EndedHandlerUnregistered ==
    \A w \in WS :
        pc[w] \in {"closed", "crashed"} => w \notin Range(active_connections["main"])

====
